---- MODULE Spec2Model ----
(***************************************************************************)
(* Model of the JMA weather forecast viewer (src/main.py, class            *)
(* WeatherApp): the area catalog built by load_area_list, the forecast     *)
(* records appended to weather_info.controls by display_weather_info, and  *)
(* the code-to-text table of get_weather_text.                             *)
(*                                                                         *)
(* Text is modelled by TLA+ strings (Len, \o and SubSeq act on them as on  *)
(* Python str).  A character outside ASCII is written {U+XXXX}, its code   *)
(* point.  A JSON object is a function from its keys to its values, so     *)
(* that `"k" in obj` is "k" \in DOMAIN obj; a JSON array is a sequence.    *)
(***************************************************************************)
EXTENDS Integers, Sequences, FiniteSets, TLC

VARIABLES
    phase,                \* "construct": __init__ is about to call load_area_list; "ready": the page is up
    area_data,            \* self.area_data
    area_list,            \* self.area_list
    dropdown_options,     \* self.area_dropdown.options
    dropdown_value,       \* self.area_dropdown.value
    controls,             \* self.weather_info.controls
    loading_visible,      \* self.loading_indicator.visible
    error_visible,        \* self.error_message.visible
    error_value,          \* self.error_message.value
    weather_data,         \* the document of the last display_weather_info call
    display_calls,        \* number of display_weather_info calls made by the last handler
    last_op,              \* the handler that ran last
    response,             \* how the request of the last handler ended: "ok", "error", or "none" when it made none
    shown_before,         \* whether weather_info.controls held controls when the last handler started
    time_def,             \* input of the date shortening under test
    date_short,           \* its result
    weather_code,         \* input of get_weather_text under test
    weather_text          \* its result

vars == <<phase, area_data, area_list, dropdown_options, dropdown_value, controls,
          loading_visible, error_visible, error_value, weather_data, display_calls,
          last_op, response, shown_before, time_def, date_short, weather_code, weather_text>>

appVars == <<phase, area_data, area_list, dropdown_options, dropdown_value, controls,
             loading_visible, error_visible, error_value, weather_data, display_calls,
             last_op, response, shown_before>>

dateVars == <<time_def, date_short>>

describeVars == <<weather_code, weather_text>>

----------------------------------------------------------------------------
(* Bounds of the generated inputs.                                         *)

\* longest forecast document (number of area forecast entries)
MaxEntries == 2

\* longest timeDefines / weatherCodes / temps / winds / waves array
MaxSeries == 2

\* longest tail appended to a sample timeDefines string
MaxTail == 3

\* longest weather code string
MaxCodeLen == 3

\* most centers, and most offices, of a generated area directory
MaxAreas == 2

----------------------------------------------------------------------------
(* Python values and str operations.                                       *)

\* None, and JSON null: a token no generated string equals
None == "<None>"

\* the empty JSON object {}
EmptyObj == [k \in {} |-> ""]

\* Python truthiness of a str-or-None value: `if v`
Truthy(v) == v # None /\ v # ""

Min(a, b) == IF a < b THEN a ELSE b

\* s[i-1] of Python, a one-character string
CharAt(s, i) == SubSeq(s, i, i)

\* `c in s` for a one-character c
Contains(s, c) == \E i \in 1..Len(s) : CharAt(s, i) = c

\* s[:n]
Prefix(s, n) == SubSeq(s, 1, Min(n, Len(s)))

\* s.find(c) + 1 from position `from` on; Len(s) + 1 when there is none
RECURSIVE IndexFrom(_, _, _)
IndexFrom(s, c, from) ==
    IF from > Len(s) THEN Len(s) + 1
    ELSE IF CharAt(s, from) = c THEN from
    ELSE IndexFrom(s, c, from + 1)

\* s.split(c) for a one-character separator c
RECURSIVE Split(_, _)
Split(s, c) ==
    LET p == IndexFrom(s, c, 1)
    IN  IF p > Len(s) THEN <<s>>
        ELSE <<SubSeq(s, 1, p - 1)>> \o Split(SubSeq(s, p + 1, Len(s)), c)

\* sep.join(parts)
RECURSIVE Join(_, _)
Join(sep, parts) ==
    IF parts = <<>> THEN ""
    ELSE IF Len(parts) = 1 THEN parts[1]
    ELSE parts[1] \o sep \o Join(sep, Tail(parts))

\* f"{s:>3}": right-aligned in a field of width 3
RECURSIVE PadLeft(_, _)
PadLeft(s, width) == IF Len(s) >= width THEN s ELSE PadLeft(" " \o s, width)

\* f"{s:6s}": left-aligned in a field of the given width
RECURSIVE PadRight(_, _)
PadRight(s, width) == IF Len(s) >= width THEN s ELSE PadRight(s \o " ", width)

\* the concatenation of a sequence of sequences
RECURSIVE Flatten(_)
Flatten(ss) == IF ss = <<>> THEN <<>> ELSE Head(ss) \o Flatten(Tail(ss))

----------------------------------------------------------------------------
(* get_weather_text: the code-to-text table.                               *)

weather_map ==
    "100" :> "{U+6674}{U+308C}" @@
    "101" :> "{U+6674}{U+308C}{U+6642}{U+3005}{U+66C7}{U+308A}" @@
    "102" :> "{U+6674}{U+308C}{U+4E00}{U+6642}{U+96E8}" @@
    "103" :> "{U+6674}{U+308C}{U+6642}{U+3005}{U+96E8}" @@
    "104" :> "{U+6674}{U+308C}{U+4E00}{U+6642}{U+96EA}" @@
    "105" :> "{U+6674}{U+308C}{U+6642}{U+3005}{U+96EA}" @@
    "106" :> "{U+6674}{U+308C}{U+4E00}{U+6642}{U+96E8}{U+304B}{U+96EA}" @@
    "107" :> "{U+6674}{U+308C}{U+6642}{U+3005}{U+96E8}{U+304B}{U+96EA}" @@
    "108" :> "{U+6674}{U+308C}{U+4E00}{U+6642}{U+96E8}{U+304B}{U+96F7}{U+96E8}" @@
    "110" :> "{U+6674}{U+308C}{U+5F8C}{U+6642}{U+3005}{U+66C7}{U+308A}" @@
    "111" :> "{U+6674}{U+308C}{U+5F8C}{U+66C7}{U+308A}" @@
    "112" :> "{U+6674}{U+308C}{U+5F8C}{U+4E00}{U+6642}{U+96E8}" @@
    "113" :> "{U+6674}{U+308C}{U+5F8C}{U+6642}{U+3005}{U+96E8}" @@
    "114" :> "{U+6674}{U+308C}{U+5F8C}{U+96E8}" @@
    "115" :> "{U+6674}{U+308C}{U+5F8C}{U+4E00}{U+6642}{U+96EA}" @@
    "116" :> "{U+6674}{U+308C}{U+5F8C}{U+6642}{U+3005}{U+96EA}" @@
    "117" :> "{U+6674}{U+308C}{U+5F8C}{U+96EA}" @@
    "118" :> "{U+6674}{U+308C}{U+5F8C}{U+96E8}{U+304B}{U+96EA}" @@
    "119" :> "{U+6674}{U+308C}{U+5F8C}{U+96E8}{U+304B}{U+96F7}{U+96E8}" @@
    "120" :> "{U+6674}{U+308C}{U+671D}{U+5915}{U+4E00}{U+6642}{U+96E8}" @@
    "121" :> "{U+6674}{U+308C}{U+671D}{U+306E}{U+5185}{U+4E00}{U+6642}{U+96E8}" @@
    "122" :> "{U+6674}{U+308C}{U+5915}{U+65B9}{U+4E00}{U+6642}{U+96E8}" @@
    "123" :> "{U+6674}{U+308C}{U+5C71}{U+6CBF}{U+3044}{U+96F7}{U+96E8}" @@
    "124" :> "{U+6674}{U+308C}{U+5C71}{U+6CBF}{U+3044}{U+96EA}" @@
    "125" :> "{U+6674}{U+308C}{U+5348}{U+5F8C}{U+306F}{U+96F7}{U+96E8}" @@
    "126" :> "{U+6674}{U+308C}{U+5348}{U+5F8C}{U+306F}{U+96EA}" @@
    "130" :> "{U+671D}{U+306E}{U+5185}{U+9727}{U+5F8C}{U+6674}{U+308C}" @@
    "131" :> "{U+6674}{U+308C}{U+660E}{U+3051}{U+65B9}{U+9727}" @@
    "132" :> "{U+6674}{U+308C}{U+671D}{U+5915}{U+66C7}{U+308A}" @@
    "140" :> "{U+6674}{U+308C}{U+6642}{U+3005}{U+96E8}{U+3067}{U+96F7}{U+3092}{U+4F34}{U+3046}" @@
    "200" :> "{U+66C7}{U+308A}" @@
    "201" :> "{U+66C7}{U+308A}{U+6642}{U+3005}{U+6674}{U+308C}" @@
    "202" :> "{U+66C7}{U+308A}{U+4E00}{U+6642}{U+96E8}" @@
    "203" :> "{U+66C7}{U+308A}{U+6642}{U+3005}{U+96E8}" @@
    "204" :> "{U+66C7}{U+308A}{U+4E00}{U+6642}{U+96EA}" @@
    "205" :> "{U+66C7}{U+308A}{U+6642}{U+3005}{U+96EA}" @@
    "206" :> "{U+66C7}{U+308A}{U+4E00}{U+6642}{U+96E8}{U+304B}{U+96EA}" @@
    "207" :> "{U+66C7}{U+308A}{U+6642}{U+3005}{U+96E8}{U+304B}{U+96EA}" @@
    "208" :> "{U+66C7}{U+308A}{U+4E00}{U+6642}{U+96E8}{U+304B}{U+96F7}{U+96E8}" @@
    "209" :> "{U+9727}" @@
    "210" :> "{U+66C7}{U+308A}{U+5F8C}{U+6642}{U+3005}{U+6674}{U+308C}" @@
    "211" :> "{U+66C7}{U+308A}{U+5F8C}{U+6674}{U+308C}" @@
    "212" :> "{U+66C7}{U+308A}{U+5F8C}{U+4E00}{U+6642}{U+96E8}" @@
    "213" :> "{U+66C7}{U+308A}{U+5F8C}{U+6642}{U+3005}{U+96E8}" @@
    "214" :> "{U+66C7}{U+308A}{U+5F8C}{U+96E8}" @@
    "215" :> "{U+66C7}{U+308A}{U+5F8C}{U+4E00}{U+6642}{U+96EA}" @@
    "216" :> "{U+66C7}{U+308A}{U+5F8C}{U+6642}{U+3005}{U+96EA}" @@
    "217" :> "{U+66C7}{U+308A}{U+5F8C}{U+96EA}" @@
    "218" :> "{U+66C7}{U+308A}{U+5F8C}{U+96E8}{U+304B}{U+96EA}" @@
    "219" :> "{U+66C7}{U+308A}{U+5F8C}{U+96E8}{U+304B}{U+96F7}{U+96E8}" @@
    "220" :> "{U+66C7}{U+308A}{U+671D}{U+5915}{U+4E00}{U+6642}{U+96E8}" @@
    "221" :> "{U+66C7}{U+308A}{U+671D}{U+306E}{U+5185}{U+4E00}{U+6642}{U+96E8}" @@
    "222" :> "{U+66C7}{U+308A}{U+5915}{U+65B9}{U+4E00}{U+6642}{U+96E8}" @@
    "223" :> "{U+66C7}{U+308A}{U+65E5}{U+4E2D}{U+6642}{U+3005}{U+6674}{U+308C}" @@
    "224" :> "{U+66C7}{U+308A}{U+663C}{U+9803}{U+304B}{U+3089}{U+96E8}" @@
    "225" :> "{U+66C7}{U+308A}{U+5915}{U+65B9}{U+304B}{U+3089}{U+96E8}" @@
    "226" :> "{U+66C7}{U+308A}{U+591C}{U+306F}{U+96E8}" @@
    "227" :> "{U+66C7}{U+308A}{U+591C}{U+534A}{U+304B}{U+3089}{U+96E8}" @@
    "228" :> "{U+66C7}{U+308A}{U+663C}{U+9803}{U+304B}{U+3089}{U+96EA}" @@
    "229" :> "{U+66C7}{U+308A}{U+5915}{U+65B9}{U+304B}{U+3089}{U+96EA}" @@
    "230" :> "{U+66C7}{U+308A}{U+591C}{U+306F}{U+96EA}" @@
    "231" :> "{U+66C7}{U+308A}{U+6D77}{U+4E0A}{U+6D77}{U+5CB8}{U+306F}{U+9727}{U+304B}{U+9727}{U+96E8}" @@
    "300" :> "{U+96E8}" @@
    "301" :> "{U+96E8}{U+6642}{U+3005}{U+6674}{U+308C}" @@
    "302" :> "{U+96E8}{U+6642}{U+3005}{U+6B62}{U+3080}" @@
    "303" :> "{U+96E8}{U+6642}{U+3005}{U+96EA}" @@
    "304" :> "{U+96E8}{U+304B}{U+96EA}" @@
    "306" :> "{U+5927}{U+96E8}" @@
    "308" :> "{U+96E8}{U+3067}{U+66B4}{U+98A8}{U+3092}{U+4F34}{U+3046}" @@
    "309" :> "{U+96E8}{U+4E00}{U+6642}{U+96EA}" @@
    "311" :> "{U+96E8}{U+5F8C}{U+6674}{U+308C}" @@
    "313" :> "{U+96E8}{U+5F8C}{U+66C7}{U+308A}" @@
    "314" :> "{U+96E8}{U+5F8C}{U+6642}{U+3005}{U+96EA}" @@
    "315" :> "{U+96E8}{U+5F8C}{U+96EA}" @@
    "316" :> "{U+96E8}{U+304B}{U+96EA}{U+5F8C}{U+6674}{U+308C}" @@
    "317" :> "{U+96E8}{U+304B}{U+96EA}{U+5F8C}{U+66C7}{U+308A}" @@
    "320" :> "{U+671D}{U+306E}{U+5185}{U+96E8}{U+5F8C}{U+6674}{U+308C}" @@
    "321" :> "{U+671D}{U+306E}{U+5185}{U+96E8}{U+5F8C}{U+66C7}{U+308A}" @@
    "322" :> "{U+96E8}{U+671D}{U+6669}{U+4E00}{U+6642}{U+96EA}" @@
    "323" :> "{U+96E8}{U+663C}{U+9803}{U+304B}{U+3089}{U+6674}{U+308C}" @@
    "324" :> "{U+96E8}{U+5915}{U+65B9}{U+304B}{U+3089}{U+6674}{U+308C}" @@
    "325" :> "{U+96E8}{U+591C}{U+306F}{U+6674}{U+308C}" @@
    "326" :> "{U+96E8}{U+5915}{U+65B9}{U+304B}{U+3089}{U+96EA}" @@
    "327" :> "{U+96E8}{U+591C}{U+306F}{U+96EA}" @@
    "328" :> "{U+96E8}{U+4E00}{U+6642}{U+5F37}{U+304F}{U+964D}{U+308B}" @@
    "329" :> "{U+96E8}{U+4E00}{U+6642}{U+307F}{U+305E}{U+308C}" @@
    "340" :> "{U+96EA}{U+304B}{U+96E8}" @@
    "350" :> "{U+96E8}{U+3067}{U+96F7}{U+3092}{U+4F34}{U+3046}" @@
    "361" :> "{U+96EA}{U+304B}{U+96E8}{U+5F8C}{U+6674}{U+308C}" @@
    "371" :> "{U+96EA}{U+304B}{U+96E8}{U+5F8C}{U+66C7}{U+308A}" @@
    "400" :> "{U+96EA}" @@
    "401" :> "{U+96EA}{U+6642}{U+3005}{U+6674}{U+308C}" @@
    "402" :> "{U+96EA}{U+6642}{U+3005}{U+6B62}{U+3080}" @@
    "403" :> "{U+96EA}{U+6642}{U+3005}{U+96E8}" @@
    "405" :> "{U+5927}{U+96EA}" @@
    "406" :> "{U+98A8}{U+96EA}{U+5F37}{U+3044}" @@
    "407" :> "{U+66B4}{U+98A8}{U+96EA}" @@
    "409" :> "{U+96EA}{U+4E00}{U+6642}{U+96E8}" @@
    "411" :> "{U+96EA}{U+5F8C}{U+6674}{U+308C}" @@
    "413" :> "{U+96EA}{U+5F8C}{U+66C7}{U+308A}" @@
    "414" :> "{U+96EA}{U+5F8C}{U+96E8}" @@
    "420" :> "{U+671D}{U+306E}{U+5185}{U+96EA}{U+5F8C}{U+6674}{U+308C}" @@
    "421" :> "{U+671D}{U+306E}{U+5185}{U+96EA}{U+5F8C}{U+66C7}{U+308A}" @@
    "422" :> "{U+96EA}{U+663C}{U+9803}{U+304B}{U+3089}{U+96E8}" @@
    "423" :> "{U+96EA}{U+5915}{U+65B9}{U+304B}{U+3089}{U+96E8}" @@
    "425" :> "{U+96EA}{U+4E00}{U+6642}{U+5F37}{U+304F}{U+964D}{U+308B}" @@
    "426" :> "{U+96EA}{U+5F8C}{U+307F}{U+305E}{U+308C}" @@
    "427" :> "{U+96EA}{U+4E00}{U+6642}{U+307F}{U+305E}{U+308C}" @@
    "450" :> "{U+96EA}{U+3067}{U+96F7}{U+3092}{U+4F34}{U+3046}"

\* the prefix of the phrase for a code that is not in the table
UnknownPrefix == "{U+4E0D}{U+660E}("

\* get_weather_text with the default of .get left out of the f-string
get_weather_text_NoWrapper(code) ==
    IF code \in DOMAIN weather_map THEN weather_map[code] ELSE code

get_weather_text(code) ==
    IF code \in DOMAIN weather_map THEN weather_map[code] ELSE UnknownPrefix \o code \o ")"

----------------------------------------------------------------------------
(* The date shown on a day line (display_weather_info, lines 300-306).     *)

\* DateShort shortening the strings without 'T' as well
DateShort_ShortenAlways(td) ==
    LET date_part == Split(td, "T")[1]
    IN  IF Contains(date_part, "-")
        THEN LET f == Split(date_part, "-") IN Join("/", SubSeq(f, 2, Min(3, Len(f))))
        ELSE date_part

DateShort(td) ==
    IF Contains(td, "T")
    THEN LET date_part == Split(td, "T")[1]
         IN  IF Contains(date_part, "-")
             THEN LET f == Split(date_part, "-") IN Join("/", SubSeq(f, 2, Min(3, Len(f))))
             ELSE date_part
    ELSE IF Len(td) >= 10 THEN Prefix(td, 10) ELSE td

----------------------------------------------------------------------------
(* display_weather_info: the controls appended for one forecast document.  *)
(* A control is a record: `kind` names the append statement that made it,  *)
(* `text` is the value of its ft.Text, and entry/block/area say which      *)
(* area forecast, time series block and area series entry of the document  *)
(* it was made for (0: none).                                              *)

\* len() of a Python str written with {U+XXXX} for the characters outside ASCII
RECURSIVE PyLen(_)
PyLen(s) ==
    IF s = "" THEN 0
    ELSE IF CharAt(s, 1) = "{" THEN 1 + PyLen(SubSeq(s, 9, Len(s)))
    ELSE 1 + PyLen(SubSeq(s, 2, Len(s)))

\* f"{s:20s}"
RECURSIVE PadRightPy(_, _)
PadRightPy(s, width) == IF PyLen(s) >= width THEN s ELSE PadRightPy(s \o " ", width)

\* "-" * n
RECURSIVE Dashes(_)
Dashes(n) == IF n = 0 THEN "" ELSE "-" \o Dashes(n - 1)

SeparatorWidth == 50

NoDataControl ==
    [kind |-> "NoData", entry |-> 0, block |-> 0, area |-> 0,
     text |-> "[ERROR] NO DATA AVAILABLE"]

EmptyControl ==
    [kind |-> "Empty", entry |-> 0, block |-> 0, area |-> 0,
     text |-> "[WARNING] NO DISPLAYABLE DATA"]

SeparatorControl(e) ==
    [kind |-> "Separator", entry |-> e, block |-> 0, area |-> 0,
     text |-> Dashes(SeparatorWidth)]

\* AreaHeaderControls asking for the name instead of the area
AreaHeaderControls_NameRequired(area_forecast, e) ==
    IF "area" \in DOMAIN area_forecast /\ "name" \in DOMAIN area_forecast["area"]
    THEN << [kind |-> "AreaHeader", entry |-> e, block |-> 0, area |-> 0,
             text |-> ">> " \o area_forecast["area"]["name"] \o " <<"] >>
    ELSE <<>>

\* lines 240-253
AreaHeaderControls(area_forecast, e) ==
    IF "area" \in DOMAIN area_forecast
    THEN LET area == area_forecast["area"]
             area_name == IF "name" \in DOMAIN area THEN area["name"] ELSE "{U+4E0D}{U+660E}"
         IN  << [kind |-> "AreaHeader", entry |-> e, block |-> 0, area |-> 0,
                 text |-> ">> " \o area_name \o " <<"] >>
    ELSE <<>>

\* lines 256-268
TimestampControls(area_forecast, e) ==
    IF "reportDatetime" \in DOMAIN area_forecast
    THEN << [kind |-> "Timestamp", entry |-> e, block |-> 0, area |-> 0,
             text |-> "[TIME] " \o area_forecast["reportDatetime"]] >>
    ELSE <<>>

\* lines 298-320: one control per pair of zip(time_defines, weather_codes)
DayLineControl(i, td, code, e, b, a) ==
    LET wtext == get_weather_text(code)
        dshort == DateShort(td)
        day_label == "DAY " \o ToString(i)
    IN  [kind |-> "DayLine", entry |-> e, block |-> b, area |-> a,
         day_label |-> day_label, date_short |-> dshort,
         weather_text |-> wtext, weather_code |-> code,
         text |-> "  [" \o PadRight(day_label, 6) \o "] " \o dshort \o " | "
                  \o PadRightPy(wtext, 20) \o " [CODE:" \o code \o "]"]

\* lines 283-320
WeatherCodeControls(area_info, time_defines, area_name, e, b, a) ==
    IF "weatherCodes" \in DOMAIN area_info
    THEN LET weather_codes == area_info["weatherCodes"]
             n == Min(Len(time_defines), Len(weather_codes))
         IN  << [kind |-> "ForecastLine", entry |-> e, block |-> b, area |-> a,
                 text |-> "[FORECAST] " \o area_name] >>
             \o [i \in 1..n |-> DayLineControl(i, time_defines[i], weather_codes[i], e, b, a)]
    ELSE <<>>

\* lines 326-327
TempText(temps) ==
    Join(" | ", [i \in 1..Len(temps) |->
                    IF Truthy(temps[i]) THEN PadLeft(temps[i], 3) \o "{U+00B0}C" ELSE "  -"])

\* lines 344 and 361
DashText(values) ==
    Join(" | ", [i \in 1..Len(values) |-> IF Truthy(values[i]) THEN values[i] ELSE "  -"])

\* lines 323-338
TempControls(area_info, e, b, a) ==
    IF "temps" \in DOMAIN area_info /\ area_info["temps"] # <<>>
    THEN << [kind |-> "TempLine", entry |-> e, block |-> b, area |-> a,
             text |-> "  [TEMP] " \o TempText(area_info["temps"])] >>
    ELSE <<>>

\* lines 341-355
WindControls(area_info, e, b, a) ==
    IF "winds" \in DOMAIN area_info /\ area_info["winds"] # <<>>
    THEN << [kind |-> "WindLine", entry |-> e, block |-> b, area |-> a,
             text |-> "  [WIND] " \o DashText(area_info["winds"])] >>
    ELSE <<>>

\* lines 358-372
WaveControls(area_info, e, b, a) ==
    IF "waves" \in DOMAIN area_info /\ area_info["waves"] # <<>>
    THEN << [kind |-> "WaveLine", entry |-> e, block |-> b, area |-> a,
             text |-> "  [WAVE] " \o DashText(area_info["waves"])] >>
    ELSE <<>>

\* lines 279-372: the body of `for area_info in time_series["areas"]`
AreaInfoControls(area_info, time_defines, e, b, a) ==
    LET area_name == IF "area" \in DOMAIN area_info /\ "name" \in DOMAIN area_info["area"]
                     THEN area_info["area"]["name"] ELSE ""
    IN  WeatherCodeControls(area_info, time_defines, area_name, e, b, a)
        \o TempControls(area_info, e, b, a)
        \o WindControls(area_info, e, b, a)
        \o WaveControls(area_info, e, b, a)

\* lines 274-372: the body of `for time_series in area_forecast["timeSeries"]`
TimeSeriesControls(time_series, e, b) ==
    IF "timeDefines" \in DOMAIN time_series /\ "areas" \in DOMAIN time_series
    THEN Flatten([a \in 1..Len(time_series["areas"]) |->
                    AreaInfoControls(time_series["areas"][a], time_series["timeDefines"], e, b, a)])
    ELSE <<>>

\* lines 271-372
AllTimeSeriesControls(area_forecast, e) ==
    IF "timeSeries" \in DOMAIN area_forecast
    THEN Flatten([b \in 1..Len(area_forecast["timeSeries"]) |->
                    TimeSeriesControls(area_forecast["timeSeries"][b], e, b)])
    ELSE <<>>

\* AreaForecastControls with the separator appended only after other controls
AreaForecastControls_SeparatorAfterContent(area_forecast, e) ==
    LET body == AreaHeaderControls(area_forecast, e)
                \o TimestampControls(area_forecast, e)
                \o AllTimeSeriesControls(area_forecast, e)
    IN  IF body = <<>> THEN <<>> ELSE body \o << SeparatorControl(e) >>

\* lines 238-385: the body of `for area_forecast in weather_data`
AreaForecastControls(area_forecast, e) ==
    AreaHeaderControls(area_forecast, e)
    \o TimestampControls(area_forecast, e)
    \o AllTimeSeriesControls(area_forecast, e)
    \o << SeparatorControl(e) >>

\* display_weather_info without the early return of lines 227-236
display_weather_info_NoEarlyReturn(doc) ==
    LET out == Flatten([e \in 1..Len(doc) |-> AreaForecastControls(doc[e], e)])
    IN  IF out = <<>> THEN << EmptyControl >> ELSE out

\* lines 225-395: weather_info.controls when display_weather_info(doc) returns
display_weather_info(doc) ==
    IF doc = <<>>
    THEN << NoDataControl >>
    ELSE LET out == Flatten([e \in 1..Len(doc) |-> AreaForecastControls(doc[e], e)])
         IN  IF out = <<>> THEN << EmptyControl >> ELSE out

\* ClearControls leaving the controls in place
ClearControls_Keep(shown) == shown

\* lines 201, 220 and 225: self.weather_info.controls.clear()
ClearControls(shown) == <<>>

\* lines 225-395: weather_info.controls, holding `shown` at the call, when
\* display_weather_info(doc) returns
display_weather_info_on(shown, doc) == ClearControls(shown) \o display_weather_info(doc)

----------------------------------------------------------------------------
(* load_area_list: the catalog.  The centers and offices mappings are      *)
(* modelled by their .items() in document order: a sequence of             *)
(* <<code, info>> pairs with distinct codes.                               *)

\* printable ASCII characters used in names, in code point order
CodePoints == " ()-/0123456789ABCDEFGHIJKLMNOPQRSTUVWXYZabcdefghijklmnopqrstuvwxyz"

\* ord(c), up to an order-preserving renumbering
Ord(c) == IndexFrom(CodePoints, c, 1)

\* a < b for Python str
RECURSIVE StrLess(_, _)
StrLess(a, b) ==
    IF b = "" THEN FALSE
    ELSE IF a = "" THEN TRUE
    ELSE IF CharAt(a, 1) = CharAt(b, 1) THEN StrLess(SubSeq(a, 2, Len(a)), SubSeq(b, 2, Len(b)))
    ELSE Ord(CharAt(a, 1)) < Ord(CharAt(b, 1))

\* AreaEntries leaving out the entries whose name is empty
RECURSIVE AreaEntries_NonEmptyName(_, _)
AreaEntries_NonEmptyName(items, type) ==
    IF items = <<>> THEN <<>>
    ELSE LET code == Head(items)[1]
             info == Head(items)[2]
         IN  (IF "name" \in DOMAIN info /\ info["name"] # ""
              THEN << [code |-> code, name |-> info["name"], type |-> type] >>
              ELSE <<>>)
             \o AreaEntries_NonEmptyName(Tail(items), type)

\* lines 153-159 and 163-169: the entries appended for one mapping
RECURSIVE AreaEntries(_, _)
AreaEntries(items, type) ==
    IF items = <<>> THEN <<>>
    ELSE LET code == Head(items)[1]
             info == Head(items)[2]
         IN  (IF "name" \in DOMAIN info
              THEN << [code |-> code, name |-> info["name"], type |-> type] >>
              ELSE <<>>)
             \o AreaEntries(Tail(items), type)

\* lines 151-169
BuildAreaList(directory) ==
    (IF "centers" \in DOMAIN directory THEN AreaEntries(directory["centers"], "center") ELSE <<>>)
    \o (IF "offices" \in DOMAIN directory THEN AreaEntries(directory["offices"], "office") ELSE <<>>)

\* x put into a list sorted by name, after the entries that do not come after it
RECURSIVE InsertByName(_, _)
InsertByName(x, sorted) ==
    IF sorted = <<>> THEN << x >>
    ELSE IF StrLess(x.name, Head(sorted).name) THEN << x >> \o sorted
    ELSE << Head(sorted) >> \o InsertByName(x, Tail(sorted))

\* SortedByName with the sort left out
SortedByName_Unsorted(list) == list

\* line 177: sorted(self.area_list, key=lambda x: x["name"]), a stable sort
RECURSIVE SortedByName(_)
SortedByName(list) ==
    IF list = <<>> THEN <<>>
    ELSE InsertByName(list[Len(list)], SortedByName(SubSeq(list, 1, Len(list) - 1)))

\* lines 172-178
DropdownOptions(list) ==
    LET s == SortedByName(list)
    IN  [i \in 1..Len(s) |-> [key |-> s[i].code, text |-> s[i].name \o " (" \o s[i].code \o ")"]]

----------------------------------------------------------------------------
(* The inputs: forecast documents, area directories, strings.              *)

\* the first n elements of a sample array repeated for ever
Take(sample, n) == [i \in 1..n |-> sample[((i - 1) % Len(sample)) + 1]]

\* the objects that have the key with one of the values, or lack it
Opt(key, values) == {EmptyObj} \cup {key :> v : v \in values}

\* the sequences over S of length at most n
RECURSIVE SeqsUpTo(_, _)
SeqsUpTo(S, n) ==
    IF n = 0 THEN {<<>>}
    ELSE LET shorter == SeqsUpTo(S, n - 1)
         IN  shorter \cup {Append(s, x) : s \in shorter, x \in S}

\* the strings over the alphabet of length at most n
RECURSIVE StringsUpTo(_, _)
StringsUpTo(alphabet, n) ==
    IF n = 0 THEN {""}
    ELSE LET shorter == StringsUpTo(alphabet, n - 1)
         IN  shorter \cup {s \o c : s \in shorter, c \in alphabet}

SampleDefs == <<"2024-01-01T00:00:00+09:00", "2024-01-02", "2024-01-03T00:00:00+09:00">>
SampleCodes == <<"100", "999", "200">>
SampleTemps == <<"5", "", None, "12">>
SampleWinds == <<"north wind", None, "south wind">>
SampleWaves == <<"0.5m", "", "1m">>

TimeDefinesOpts == Opt("timeDefines", {Take(SampleDefs, n) : n \in 0..MaxSeries})
WeatherCodesOpts == Opt("weatherCodes", {Take(SampleCodes, n) : n \in 0..MaxSeries})
AreaNameOpts == {EmptyObj, "area" :> EmptyObj, "area" :> [name |-> "Tokyo"]}

AllReadings ==
    [temps |-> Take(SampleTemps, MaxSeries + 1), winds |-> Take(SampleWinds, MaxSeries),
     waves |-> Take(SampleWaves, MaxSeries)]

\* area series entries that vary the weather codes
CodeAreaInfos ==
    {n @@ w @@ r : n \in {EmptyObj, "area" :> [name |-> "Tokyo"]},
                   w \in WeatherCodesOpts, r \in {EmptyObj, AllReadings}}

\* area series entries that vary the readings
ReadingAreaInfos ==
    {w @@ t @@ wi @@ wa :
        w \in Opt("weatherCodes", {Take(SampleCodes, MaxSeries)}),
        t \in Opt("temps", {<<>>, Take(SampleTemps, MaxSeries + 1)}),
        wi \in Opt("winds", {<<>>, Take(SampleWinds, MaxSeries)}),
        wa \in Opt("waves", {<<>>, Take(SampleWaves, MaxSeries)})}

PairAreaInfos ==
    {EmptyObj, [weatherCodes |-> Take(SampleCodes, 1)], [temps |-> Take(SampleTemps, 1)]}

TimeSeriesBlocks ==
    {t @@ ("areas" :> <<ai>>) : t \in TimeDefinesOpts, ai \in CodeAreaInfos}
    \cup {t @@ ("areas" :> <<ai>>) : t \in TimeDefinesOpts, ai \in ReadingAreaInfos}
    \cup {t @@ a : t \in Opt("timeDefines", {Take(SampleDefs, MaxSeries)}),
                   a \in Opt("areas", {<<>>})}
    \cup {[timeDefines |-> Take(SampleDefs, MaxSeries), areas |-> <<a1, a2>>] :
            a1 \in PairAreaInfos, a2 \in PairAreaInfos}

SampleBlock ==
    [timeDefines |-> Take(SampleDefs, MaxSeries),
     areas |-> << [area |-> [name |-> "Tokyo"], weatherCodes |-> Take(SampleCodes, MaxSeries)] >>]

\* forecast documents of one area forecast that vary its time series
DeepDocs ==
    {<< [timeSeries |-> <<blk>>] >> : blk \in TimeSeriesBlocks}
    \cup {<< [timeSeries |-> <<>>] >>,
          << [timeSeries |-> <<SampleBlock, EmptyObj, SampleBlock>>] >>,
          << [timeSeries |-> <<[timeDefines |-> <<>>], SampleBlock>>] >>}

\* area forecasts that vary the area and the report time
ShallowForecasts ==
    {a @@ r @@ t : a \in AreaNameOpts,
                   r \in Opt("reportDatetime", {"2024-01-01T00:00:00+09:00"}),
                   t \in Opt("timeSeries", {<<SampleBlock>>})}

\* the forecast documents display_weather_info is checked on
Docs == SeqsUpTo(ShallowForecasts, MaxEntries) \cup DeepDocs

SampleForecast ==
    [area |-> [name |-> "Osaka"], reportDatetime |-> "2024-01-01T05:00:00+09:00",
     timeSeries |-> <<SampleBlock>>]

\* the forecast documents the running viewer retrieves
SampleDocs == SeqsUpTo({EmptyObj, "area" :> EmptyObj, SampleForecast}, MaxEntries)

\* the i-th code of a generated mapping, in descending order
CenterCode(i) == "01" \o ToString(9 - i) \o "000"
OfficeCode(i) == "0" \o ToString(9 - i) \o "0000"

AreaNames == {"", "A", "AB", "B"}

AreaInfoObjs == Opt("name", AreaNames)

CenterItems == {[i \in 1..Len(s) |-> <<CenterCode(i), s[i]>>] : s \in SeqsUpTo(AreaInfoObjs, MaxAreas)}
OfficeItems == {[i \in 1..Len(s) |-> <<OfficeCode(i), s[i]>>] : s \in SeqsUpTo(AreaInfoObjs, MaxAreas)}

\* the area directories the catalog is checked on
Directories == {c @@ o : c \in Opt("centers", CenterItems), o \in Opt("offices", OfficeItems)}

\* the area directory the forecast viewer is run with
SampleDirectories ==
    {[centers |-> << <<"010300", [name |-> "Kanto"]>> >>,
      offices |-> << <<"130000", [name |-> "Tokyo"]>> >>]}

\* str(e) of a failed request
RequestErrors == {"404 Client Error"}

TimeHeads == {"", "2024-01-01", "20240101", "2024-01"}
TimeAlphabet == {"0", "-", "T"}

\* timeDefines strings the date shortening is checked on
TimeStrings == {h \o t : h \in TimeHeads, t \in StringsUpTo(TimeAlphabet, MaxTail)}

Digits == {"0", "1", "2", "3", "4", "5", "6", "7", "8", "9"}

\* weather codes get_weather_text is checked on
Codes == StringsUpTo(Digits, MaxCodeLen)

----------------------------------------------------------------------------
(* The application.                                                        *)

AppInit ==
    /\ phase = "construct"
    /\ area_data = None
    /\ area_list = <<>>
    /\ dropdown_options = <<>>
    /\ dropdown_value = None
    /\ controls = <<>>
    /\ loading_visible = FALSE
    /\ error_visible = FALSE
    /\ error_value = ""
    /\ weather_data = None
    /\ display_calls = 0
    /\ last_op = "none"
    /\ response = "none"
    /\ shown_before = FALSE

Init ==
    /\ AppInit
    /\ time_def = None /\ date_short = None
    /\ weather_code = None /\ weather_text = None

\* load_area_list, the request answered with a directory
load_area_list_ok(directories) ==
    /\ phase = "construct"
    /\ \E directory \in directories :
        /\ area_data' = directory
        /\ area_list' = BuildAreaList(directory)
        /\ dropdown_options' = DropdownOptions(BuildAreaList(directory))
    /\ loading_visible' = FALSE
    /\ error_visible' = FALSE
    /\ phase' = "ready"
    /\ last_op' = "load_area_list"
    /\ response' = "ok"
    /\ shown_before' = (controls # <<>>)
    /\ UNCHANGED <<dropdown_value, controls, error_value, weather_data, display_calls>>
    /\ UNCHANGED <<dateVars, describeVars>>

\* load_area_list, the request failing
load_area_list_fail ==
    /\ phase = "construct"
    /\ \E e \in RequestErrors :
        error_value' = "[ERROR] FAILED TO LOAD AREA LIST: " \o e
    /\ loading_visible' = FALSE
    /\ error_visible' = TRUE
    /\ phase' = "ready"
    /\ last_op' = "load_area_list"
    /\ response' = "error"
    /\ shown_before' = (controls # <<>>)
    /\ UNCHANGED <<area_data, area_list, dropdown_options, dropdown_value, controls,
                   weather_data, display_calls>>
    /\ UNCHANGED <<dateVars, describeVars>>

OptionKeys == {dropdown_options[i].key : i \in 1..Len(dropdown_options)}

\* on_area_selected with nothing selected
on_area_selected_none ==
    /\ phase = "ready"
    /\ dropdown_value' = None
    /\ display_calls' = 0
    /\ last_op' = "on_area_selected"
    /\ response' = "none"
    /\ shown_before' = (controls # <<>>)
    /\ UNCHANGED <<phase, area_data, area_list, dropdown_options, controls, loading_visible,
                   error_visible, error_value, weather_data>>
    /\ UNCHANGED <<dateVars, describeVars>>

\* on_area_selected and load_weather_info, the request answered with a document
load_weather_info_ok(docs) ==
    /\ phase = "ready"
    /\ \E area_code \in OptionKeys : dropdown_value' = area_code
    /\ \E doc \in docs :
        /\ weather_data' = doc
        /\ controls' = display_weather_info_on(ClearControls(controls), doc)
    /\ display_calls' = 1
    /\ last_op' = "load_weather_info"
    /\ response' = "ok"
    /\ shown_before' = (controls # <<>>)
    /\ loading_visible' = FALSE
    /\ error_visible' = FALSE
    /\ UNCHANGED <<phase, area_data, area_list, dropdown_options, error_value>>
    /\ UNCHANGED <<dateVars, describeVars>>

\* load_weather_info failing with the clears of lines 201 and 220 left out
load_weather_info_fail_KeepsControls ==
    /\ phase = "ready"
    /\ \E area_code \in OptionKeys : dropdown_value' = area_code
    /\ \E e \in RequestErrors :
        error_value' = "[ERROR] FAILED TO LOAD WEATHER DATA: " \o e
    /\ display_calls' = 0
    /\ last_op' = "load_weather_info"
    /\ response' = "error"
    /\ shown_before' = (controls # <<>>)
    /\ loading_visible' = FALSE
    /\ error_visible' = TRUE
    /\ controls' = controls
    /\ UNCHANGED <<phase, area_data, area_list, dropdown_options, weather_data>>
    /\ UNCHANGED <<dateVars, describeVars>>

\* on_area_selected and load_weather_info, the request failing
load_weather_info_fail ==
    /\ phase = "ready"
    /\ \E area_code \in OptionKeys : dropdown_value' = area_code
    /\ \E e \in RequestErrors :
        error_value' = "[ERROR] FAILED TO LOAD WEATHER DATA: " \o e
    /\ display_calls' = 0
    /\ last_op' = "load_weather_info"
    /\ response' = "error"
    /\ shown_before' = (controls # <<>>)
    /\ loading_visible' = FALSE
    /\ error_visible' = TRUE
    /\ controls' = ClearControls(ClearControls(controls))
    /\ UNCHANGED <<phase, area_data, area_list, dropdown_options, weather_data>>
    /\ UNCHANGED <<dateVars, describeVars>>

Next ==
    \/ load_area_list_ok(SampleDirectories)
    \/ load_area_list_fail
    \/ on_area_selected_none
    \/ load_weather_info_ok(SampleDocs)
    \/ load_weather_info_fail

Spec == Init /\ [][Next]_vars

----------------------------------------------------------------------------
(* The catalog alone, over every generated directory.                      *)

NextCatalog ==
    \/ load_area_list_ok(Directories)
    \/ load_area_list_fail

SpecCatalog == Init /\ [][NextCatalog]_vars

----------------------------------------------------------------------------
(* display_weather_info alone, over every generated document:              *)
(* load_weather_info has parsed the response (line 208) and calls it.      *)

InitExtract ==
    /\ phase = "ready"
    /\ area_data = None
    /\ area_list = <<>>
    /\ dropdown_options = <<>>
    /\ dropdown_value = None
    /\ controls = <<>>
    /\ loading_visible = TRUE
    /\ error_visible = FALSE
    /\ error_value = ""
    /\ weather_data \in Docs
    /\ display_calls = 0
    /\ last_op = "none"
    /\ response = "none"
    /\ shown_before = FALSE
    /\ time_def = None /\ date_short = None
    /\ weather_code = None /\ weather_text = None

DisplayCall ==
    /\ display_calls = 0
    /\ controls' = display_weather_info_on(controls, weather_data)
    /\ display_calls' = 1
    /\ last_op' = "load_weather_info"
    /\ response' = "ok"
    /\ shown_before' = (controls # <<>>)
    /\ loading_visible' = FALSE
    /\ UNCHANGED <<phase, area_data, area_list, dropdown_options, dropdown_value,
                   error_visible, error_value, weather_data>>
    /\ UNCHANGED <<dateVars, describeVars>>

NextExtract == DisplayCall

SpecExtract == InitExtract /\ [][NextExtract]_vars

----------------------------------------------------------------------------
(* The date shortening alone.                                              *)

InitDate ==
    /\ AppInit
    /\ time_def \in TimeStrings /\ date_short = None
    /\ weather_code = None /\ weather_text = None

ShortenDate ==
    /\ date_short = None
    /\ date_short' = DateShort(time_def)
    /\ UNCHANGED <<appVars, time_def, describeVars>>

NextDate == ShortenDate

SpecDate == InitDate /\ [][NextDate]_vars

----------------------------------------------------------------------------
(* get_weather_text alone.                                                 *)

InitDescribe ==
    /\ AppInit
    /\ time_def = None /\ date_short = None
    /\ weather_code \in Codes /\ weather_text = None

Describe ==
    /\ weather_text = None
    /\ weather_text' = get_weather_text(weather_code)
    /\ UNCHANGED <<appVars, dateVars, weather_code>>

NextDescribe == Describe

SpecDescribe == InitDescribe /\ [][NextDescribe]_vars

----------------------------------------------------------------------------
(* What the claims speak of.                                               *)

\* display_weather_info has returned and `controls` is what it made of weather_data
Displayed == display_calls = 1

\* the positions of the controls of one kind
OfKind(kind) == {i \in 1..Len(controls) : controls[i].kind = kind}

\* the positions of the controls made for area forecast e
OfEntry(e) == {i \in 1..Len(controls) : controls[i].entry = e}

\* the controls made for area series entry a of block b of area forecast e, in order
OfAreaInfo(e, b, a) ==
    SelectSeq(controls, LAMBDA c : c.entry = e /\ c.block = b /\ c.area = a)

\* the controls of one kind among those of an area series entry
KindOfAreaInfo(kind, e, b, a) == SelectSeq(OfAreaInfo(e, b, a), LAMBDA c : c.kind = kind)

\* the area series entries of area forecast e of a document: <<e, b, a>>
AreaInfoPlacesOf(doc, e) ==
    IF "timeSeries" \in DOMAIN doc[e]
    THEN LET ts == doc[e]["timeSeries"]
         IN  UNION {IF "areas" \in DOMAIN ts[b]
                    THEN {<<e, b, a>> : a \in 1..Len(ts[b]["areas"])}
                    ELSE {} : b \in 1..Len(ts)}
    ELSE {}

\* the area series entries of a document
AreaInfoPlaces(doc) == UNION {AreaInfoPlacesOf(doc, e) : e \in 1..Len(doc)}

BlockAt(doc, p) == doc[p[1]]["timeSeries"][p[2]]

AreaInfoAt(doc, p) == BlockAt(doc, p)["areas"][p[3]]

\* an area forecast none of whose fields gives a line
Unrenderable(area_forecast) ==
    /\ "area" \notin DOMAIN area_forecast
    /\ "reportDatetime" \notin DOMAIN area_forecast
    /\ "timeSeries" \in DOMAIN area_forecast =>
        \A b \in 1..Len(area_forecast["timeSeries"]) :
            LET blk == area_forecast["timeSeries"][b]
            IN  "areas" \in DOMAIN blk =>
                    \A a \in 1..Len(blk["areas"]) :
                        /\ "weatherCodes" \notin DOMAIN blk["areas"][a]
                        /\ \A k \in {"temps", "winds", "waves"} :
                            k \in DOMAIN blk["areas"][a] => blk["areas"][a][k] = <<>>

----------------------------------------------------------------------------
(* C1: for the empty forecast document, display_weather_info leaves        *)
(* exactly one control, the "no data available" one, and no separator or   *)
(* other control.                                                          *)

C1_EmptyDocumentGivesNoData ==
    (Displayed /\ weather_data = <<>>) =>
        /\ Len(controls) = 1
        /\ controls[1].kind = "NoData"
        /\ controls[1].text = "[ERROR] NO DATA AVAILABLE"

C1_Witness == Displayed /\ weather_data = <<>>

(* C2: for a non-empty forecast document none of whose area forecasts has  *)
(* a renderable field, display_weather_info leaves the "no displayable     *)
(* data" control, which is not the "no data available" control.            *)

C2_UnrenderableGivesEmpty ==
    (/\ Displayed
     /\ weather_data # <<>>
     /\ \A e \in 1..Len(weather_data) : Unrenderable(weather_data[e])) =>
        /\ OfKind("Empty") # {}
        /\ OfKind("NoData") = {}
        /\ EmptyControl # NoDataControl

(* C3: for a non-empty forecast document, each area forecast contributes   *)
(* exactly one separator, as the last of its controls, so that there are   *)
(* as many separators as area forecasts; an area forecast without any      *)
(* recognized field contributes the separator and nothing else.            *)

C3_OneSeparatorPerEntry ==
    (Displayed /\ weather_data # <<>>) =>
        /\ Cardinality(OfKind("Separator")) = Len(weather_data)
        /\ \A i \in 1..Len(controls) : controls[i].entry \in 1..Len(weather_data)
        /\ \A i \in 1..(Len(controls) - 1) : controls[i].entry <= controls[i + 1].entry
        /\ \A e \in 1..Len(weather_data) :
            /\ Cardinality(OfEntry(e) \cap OfKind("Separator")) = 1
            /\ \E i \in OfEntry(e) :
                /\ controls[i].kind = "Separator"
                /\ \A j \in OfEntry(e) : j <= i
            /\ DOMAIN weather_data[e] \cap {"area", "reportDatetime", "timeSeries"} = {} =>
                Cardinality(OfEntry(e)) = 1

C3_Witness ==
    /\ Displayed
    /\ Len(weather_data) >= 2
    /\ \E e \in 1..Len(weather_data) : weather_data[e] = EmptyObj
    /\ \E e \in 1..Len(weather_data) : Cardinality(OfEntry(e)) > 3

(* C4 as claimed: an area forecast gets an AreaHeader control exactly when *)
(* area.name is present, carrying that name; an area object without a name *)
(* gets no header and no placeholder header.                               *)

C4_HeaderIffNamePresent ==
    (Displayed /\ weather_data # <<>>) =>
        \A e \in 1..Len(weather_data) :
            LET af == weather_data[e]
                named == "area" \in DOMAIN af /\ "name" \in DOMAIN af["area"]
                headers == OfEntry(e) \cap OfKind("AreaHeader")
            IN  /\ (headers # {}) <=> named
                /\ named => \A i \in headers : controls[i].text = ">> " \o af["area"]["name"] \o " <<"

(* C4 as amended: an area forecast gets exactly one AreaHeader control,    *)
(* the first of its controls, exactly when the area key is present; the    *)
(* header carries area.name when the name is present and the placeholder   *)
(* name {U+4E0D}{U+660E} ("unknown") when the area object has no name.     *)

C4_HeaderIffAreaPresent ==
    (Displayed /\ weather_data # <<>>) =>
        \A e \in 1..Len(weather_data) :
            LET af == weather_data[e]
                headers == OfEntry(e) \cap OfKind("AreaHeader")
            IN  IF "area" \in DOMAIN af
                THEN /\ Cardinality(headers) = 1
                     /\ \A i \in headers :
                         /\ \A j \in OfEntry(e) : i <= j
                         /\ controls[i].text =
                              IF "name" \in DOMAIN af["area"]
                              THEN ">> " \o af["area"]["name"] \o " <<"
                              ELSE ">> {U+4E0D}{U+660E} <<"
                ELSE headers = {}

C4_Witness ==
    /\ Displayed
    /\ \E e \in 1..Len(weather_data) :
        /\ "area" \in DOMAIN weather_data[e]
        /\ "name" \notin DOMAIN weather_data[e]["area"]
        /\ OfEntry(e) \cap OfKind("AreaHeader") # {}
    /\ \E e \in 1..Len(weather_data) :
        /\ "area" \in DOMAIN weather_data[e]
        /\ "name" \in DOMAIN weather_data[e]["area"]

(* C5: every area series entry that has weatherCodes gets one ForecastLine *)
(* control followed by exactly min(len(timeDefines), len(weatherCodes))    *)
(* DayLine controls in index order; the i-th (from 0) has day index i+1,   *)
(* the code weatherCodes[i] and the text get_weather_text gives for it;    *)
(* the elements beyond the shorter array give no DayLine.                  *)

DayLinesFollowForecastLine(p) ==
    LET blk == BlockAt(weather_data, p)
        weather_codes == AreaInfoAt(weather_data, p)["weatherCodes"]
        time_defines == IF "timeDefines" \in DOMAIN blk THEN blk["timeDefines"] ELSE <<>>
        n == Min(Len(time_defines), Len(weather_codes))
        made == OfAreaInfo(p[1], p[2], p[3])
    IN  /\ Len(KindOfAreaInfo("ForecastLine", p[1], p[2], p[3])) = 1
        /\ Len(KindOfAreaInfo("DayLine", p[1], p[2], p[3])) = n
        /\ Len(made) >= n + 1
        /\ made[1].kind = "ForecastLine"
        /\ \A i \in 1..n :
            /\ made[i + 1].kind = "DayLine"
            /\ made[i + 1].day_label = "DAY " \o ToString(i)
            /\ made[i + 1].weather_code = weather_codes[i]
            /\ made[i + 1].weather_text = get_weather_text(weather_codes[i])

C5_DayLinesPerWeatherCodes ==
    (Displayed /\ weather_data # <<>>) =>
        \A p \in AreaInfoPlaces(weather_data) :
            "weatherCodes" \in DOMAIN AreaInfoAt(weather_data, p) => DayLinesFollowForecastLine(p)

\* the same for the blocks that have timeDefines, where it holds; the entries of a
\* block without timeDefines get no control at all
C5_DayLinesWhereTimeDefines ==
    (Displayed /\ weather_data # <<>>) =>
        \A p \in AreaInfoPlaces(weather_data) :
            IF "timeDefines" \in DOMAIN BlockAt(weather_data, p)
            THEN "weatherCodes" \in DOMAIN AreaInfoAt(weather_data, p) =>
                    DayLinesFollowForecastLine(p)
            ELSE OfAreaInfo(p[1], p[2], p[3]) = <<>>

(* C6 as claimed: the date of a DayLine is the part of timeDefines[i]      *)
(* before any 'T' turned into MM/DD when that part has the shape           *)
(* YYYY-MM-DD, and the first 10 characters of the raw string otherwise;    *)
(* this for the strings with a 'T' part and for the date-only strings such *)
(* as "2024-01-01".                                                        *)

\* YYYY-MM-DD
DateShaped(s) ==
    /\ Len(s) = 10
    /\ \A i \in 1..10 : IF i \in {5, 8} THEN CharAt(s, i) = "-" ELSE CharAt(s, i) \in Digits

ClaimedDateShort(td) ==
    LET p == IndexFrom(td, "T", 1)
        part == SubSeq(td, 1, p - 1)
    IN  IF DateShaped(part)
        THEN SubSeq(part, 6, 7) \o "/" \o SubSeq(part, 9, 10)
        ELSE Prefix(td, 10)

ReadingLine(p, key, kind, text) ==
    LET area_info == AreaInfoAt(weather_data, p)
        lines == KindOfAreaInfo(kind, p[1], p[2], p[3])
    IN  IF key \in DOMAIN area_info /\ area_info[key] # <<>>
        THEN Len(lines) = 1 /\ lines[1].text = text
        ELSE lines = <<>>

ReadingLines(p) ==
    LET area_info == AreaInfoAt(weather_data, p)
    IN  /\ ReadingLine(p, "temps", "TempLine", "  [TEMP] " \o TempText(area_info["temps"]))
        /\ ReadingLine(p, "winds", "WindLine", "  [WIND] " \o DashText(area_info["winds"]))
        /\ ReadingLine(p, "waves", "WaveLine", "  [WAVE] " \o DashText(area_info["waves"]))

C7_ReadingLinesPerArray ==
    (Displayed /\ weather_data # <<>>) =>
        \A p \in AreaInfoPlaces(weather_data) : ReadingLines(p)

\* the same for the blocks that have timeDefines, where it holds
C7_ReadingLinesWhereTimeDefines ==
    (Displayed /\ weather_data # <<>>) =>
        \A p \in AreaInfoPlaces(weather_data) :
            "timeDefines" \in DOMAIN BlockAt(weather_data, p) => ReadingLines(p)

(* C8: get_weather_text gives the phrase of the table, which is not empty, *)
(* for a code that is a key of the table, and for any other code exactly   *)
(* the fallback {U+4E0D}{U+660E}(<code>) with the code unchanged inside;   *)
(* it never gives the fallback form for a code of the table.               *)

\* the text has the form of the fallback
FallbackForm(text) == Prefix(text, Len(UnknownPrefix)) = UnknownPrefix

C8_DescribeTableOrFallback ==
    weather_text # None =>
        IF weather_code \in DOMAIN weather_map
        THEN /\ weather_text = weather_map[weather_code]
             /\ weather_text # ""
             /\ ~FallbackForm(weather_text)
        ELSE /\ weather_text = "{U+4E0D}{U+660E}(" \o weather_code \o ")"
             /\ FallbackForm(weather_text)
             /\ SubSeq(weather_text, Len(UnknownPrefix) + 1, Len(weather_text) - 1) = weather_code

C8_Witness ==
    /\ weather_code = "999"
    /\ weather_text = "{U+4E0D}{U+660E}(999)"

\* the other case of C8 is reached as well: a code of the table
C8_WitnessKnown ==
    /\ weather_code = "308"
    /\ weather_text # None
    /\ ~FallbackForm(weather_text)

----------------------------------------------------------------------------
(* The catalog.                                                            *)

\* load_area_list has returned with the directory read
CatalogLoaded == phase = "ready" /\ ~error_visible

\* the <<code, info>> pairs of a mapping of the directory; none when it is missing
ItemsOf(directory, key) ==
    IF key \in DOMAIN directory
    THEN {directory[key][i] : i \in 1..Len(directory[key])}
    ELSE {}

EntriesOfList == {area_list[i] : i \in 1..Len(area_list)}

(* C9 as claimed: area_list holds exactly one entry (code, name, kind) for *)
(* each centers entry with a non-empty name and each offices entry with a  *)
(* non-empty name, and none for an entry whose name is missing or empty; a *)
(* missing mapping gives no entries, and a directory without both gives    *)
(* the empty list and no error.                                            *)

NamedNonEmpty(directory, key, type) ==
    {[code |-> it[1], name |-> it[2]["name"], type |-> type] :
        it \in {x \in ItemsOf(directory, key) : "name" \in DOMAIN x[2] /\ x[2]["name"] # ""}}

C9_EntriesOfNonEmptyNames ==
    CatalogLoaded =>
        /\ EntriesOfList = NamedNonEmpty(area_data, "centers", "center")
                            \cup NamedNonEmpty(area_data, "offices", "office")
        /\ Cardinality(EntriesOfList) = Len(area_list)

(* C9 as amended: area_list holds exactly one entry (code, name, kind) for *)
(* each centers entry and each offices entry that has a name field, an     *)
(* empty name included, and none for an entry without a name field; a      *)
(* missing mapping gives no entries, and a directory without both gives    *)
(* the empty list and no error.                                            *)

Named(directory, key, type) ==
    {[code |-> it[1], name |-> it[2]["name"], type |-> type] :
        it \in {x \in ItemsOf(directory, key) : "name" \in DOMAIN x[2]}}

C9_EntriesOfPresentNames ==
    CatalogLoaded =>
        /\ EntriesOfList = Named(area_data, "centers", "center")
                            \cup Named(area_data, "offices", "office")
        /\ Cardinality(EntriesOfList) = Len(area_list)
        /\ DOMAIN area_data \cap {"centers", "offices"} = {} => area_list = <<>>

C9_Witness ==
    /\ CatalogLoaded
    /\ \E i \in 1..Len(area_list) : area_list[i].name = "" /\ area_list[i].type = "center"
    /\ \E i \in 1..Len(area_list) : area_list[i].name # "" /\ area_list[i].type = "office"
    /\ \E it \in ItemsOf(area_data, "offices") : "name" \notin DOMAIN it[2]

\* the other case of C9 is reached as well: a directory without centers and offices
C9_WitnessNoMappings ==
    /\ CatalogLoaded
    /\ DOMAIN area_data = {}
    /\ area_list = <<>>

(* C10: the options offered for selection are those of area_list sorted    *)
(* ascending by name, and the entries of equal name keep the order they    *)
(* have in area_list, so that the sequence is a function of the directory  *)
(* document alone.                                                         *)

\* where entry j of area_list stands among the options
RankByName(j) ==
    1 + Cardinality({k \in 1..Len(area_list) : StrLess(area_list[k].name, area_list[j].name)})
      + Cardinality({k \in 1..(j - 1) : area_list[k].name = area_list[j].name})

C10_OptionsSortedByName ==
    CatalogLoaded =>
        /\ Len(dropdown_options) = Len(area_list)
        /\ \A j \in 1..Len(area_list) :
            /\ dropdown_options[RankByName(j)].key = area_list[j].code
            /\ dropdown_options[RankByName(j)].text =
                 area_list[j].name \o " (" \o area_list[j].code \o ")"
        /\ \A j, k \in 1..Len(area_list) :
            StrLess(area_list[j].name, area_list[k].name) => RankByName(j) < RankByName(k)

C10_Witness ==
    /\ CatalogLoaded
    /\ Len(area_list) >= 3
    /\ \E j, k \in 1..Len(area_list) :
        j < k /\ StrLess(area_list[k].name, area_list[j].name)
    /\ \E j, k \in 1..Len(area_list) :
        j < k /\ area_list[j].name = area_list[k].name

----------------------------------------------------------------------------
(* C11: after any sequence of loads, what display_weather_info leaves in   *)
(* weather_info.controls is what it makes of the document of the last      *)
(* call alone: no control of an earlier call (on the same document, on     *)
(* another one or on the empty one) remains or is doubled, and a call on   *)
(* the document already shown leaves the same sequence.                    *)

\* the controls are those of weather_data and of nothing else
ShowsLastDocumentAlone ==
    /\ controls = display_weather_info(weather_data)
    /\ weather_data = <<>> => Len(controls) = 1
    /\ weather_data # <<>> =>
        /\ OfKind("NoData") = {}
        /\ Cardinality(OfKind("Separator")) = Len(weather_data)
        /\ \A i \in 1..Len(controls) : controls[i].entry \in 1..Len(weather_data)

\* a call on the document that is shown changes nothing of what is shown
SameDocumentSameControls ==
    (Displayed /\ Displayed' /\ weather_data' = weather_data) => controls' = controls

C11_ShowsLastDocumentAlone ==
    /\ [](Displayed => ShowsLastDocumentAlone)
    /\ [][SameDocumentSameControls]_vars

\* a document is displayed over the controls an earlier call left
C11_Witness ==
    /\ Displayed
    /\ last_op = "load_weather_info"
    /\ shown_before
    /\ Len(weather_data) >= 2
    /\ OfKind("AreaHeader") # {}

----------------------------------------------------------------------------
(* C12: in a forecast document, an array of objects, any of area, its      *)
(* name, reportDatetime, timeSeries, timeDefines, areas, weatherCodes,     *)
(* temps, winds and waves may be missing; a missing field takes away the   *)
(* lines made from that field and no other: the lines made from the fields *)
(* that are present are in the controls.                                   *)

\* area forecast e has a control of the kind exactly when it has the field
EntryLineIffField(e, key, kind) ==
    (key \in DOMAIN weather_data[e]) <=> (\E i \in OfEntry(e) : controls[i].kind = kind)

\* the area series entry has a control of the kind exactly when it has the field
AreaInfoLineIffField(p, key, kind) ==
    (key \in DOMAIN AreaInfoAt(weather_data, p)) <=>
        (KindOfAreaInfo(kind, p[1], p[2], p[3]) # <<>>)

\* the same for an array that gives a line only when it has elements
AreaInfoLineIffReadings(p, key, kind) ==
    (key \in DOMAIN AreaInfoAt(weather_data, p) /\ AreaInfoAt(weather_data, p)[key] # <<>>) <=>
        (KindOfAreaInfo(kind, p[1], p[2], p[3]) # <<>>)

LinesOfPresentFields(p) ==
    /\ AreaInfoLineIffField(p, "weatherCodes", "ForecastLine")
    /\ AreaInfoLineIffReadings(p, "temps", "TempLine")
    /\ AreaInfoLineIffReadings(p, "winds", "WindLine")
    /\ AreaInfoLineIffReadings(p, "waves", "WaveLine")

C12_MissingFieldSuppressesOnlyItsLines ==
    (Displayed /\ weather_data # <<>>) =>
        /\ \A e \in 1..Len(weather_data) :
            /\ EntryLineIffField(e, "area", "AreaHeader")
            /\ EntryLineIffField(e, "reportDatetime", "Timestamp")
        /\ \A p \in AreaInfoPlaces(weather_data) : LinesOfPresentFields(p)

\* what holds: the lines of the area forecast itself follow its fields, and
\* those of an area series entry follow its fields where the block has
\* timeDefines; under a block without timeDefines no entry gives any control
C12_LinesOfPresentFieldsWhereTimeDefines ==
    (Displayed /\ weather_data # <<>>) =>
        /\ \A e \in 1..Len(weather_data) :
            /\ EntryLineIffField(e, "area", "AreaHeader")
            /\ EntryLineIffField(e, "reportDatetime", "Timestamp")
        /\ \A p \in AreaInfoPlaces(weather_data) :
            IF "timeDefines" \in DOMAIN BlockAt(weather_data, p)
            THEN LinesOfPresentFields(p)
            ELSE OfAreaInfo(p[1], p[2], p[3]) = <<>>

\* temps is present under a block without timeDefines
C12_WitnessNoTimeDefines ==
    /\ Displayed
    /\ \E p \in AreaInfoPlaces(weather_data) :
        /\ "timeDefines" \notin DOMAIN BlockAt(weather_data, p)
        /\ "temps" \in DOMAIN AreaInfoAt(weather_data, p)
        /\ AreaInfoAt(weather_data, p)["temps"] # <<>>

----------------------------------------------------------------------------
(* C13: when the request of load_weather_info fails (an exception of the   *)
(* request or a status that is not a success), display_weather_info is not *)
(* called in that load and, on return, weather_info.controls is empty (no  *)
(* control of a forecast shown before remains), the error message is       *)
(* visible and the loading indicator is hidden; after a load that          *)
(* succeeded the error message is not visible and the loading indicator is *)
(* hidden.                                                                 *)

\* load_weather_info has returned, its request having ended as `outcome`
Loaded(outcome) == last_op = "load_weather_info" /\ response = outcome

C13_FailedLoadShowsErrorOnly ==
    /\ Loaded("error") =>
        /\ display_calls = 0
        /\ controls = <<>>
        /\ error_visible
        /\ Prefix(error_value, 37) = "[ERROR] FAILED TO LOAD WEATHER DATA: "
        /\ ~loading_visible
    /\ Loaded("ok") =>
        /\ display_calls = 1
        /\ ~error_visible
        /\ ~loading_visible

\* a load fails while the forecast of an earlier load is shown
C13_Witness ==
    /\ Loaded("error")
    /\ shown_before
    /\ Len(weather_data) >= 1

\* a load succeeds after one that failed
C13_WitnessRecovered ==
    /\ Loaded("ok")
    /\ ~shown_before
    /\ Prefix(error_value, 37) = "[ERROR] FAILED TO LOAD WEATHER DATA: "
====
